---- MODULE Spec2Model ----
(***************************************************************************)
(* State-machine model of the task store (src/src/store/useStore.ts), of   *)
(* its persist middleware options and of the useTasks hook                 *)
(* (src/unnamed/part_000).                                                 *)
(*                                                                         *)
(* Representation.                                                         *)
(*  - A timestamp is the integer number of milliseconds Date.now() gives. *)
(*    new Date().toISOString() is a fixed-width rendering of that number,  *)
(*    so the strings order exactly as the numbers do.                      *)
(*  - An id `${Date.now()}-${random}` is the pair <<ms, suffix>>.          *)
(*  - A Task is a record.  dueDate stands for every plain field that the   *)
(*    store only copies (title, description, priority, category, tags,     *)
(*    assignee are carried the same way by the object spreads).            *)
(*  - estimatedHours is kept as its printed form ("8", "NaN", ...), with   *)
(*    "undefined" for an absent or undefined property.                     *)
(*  - The localStorage slot holds JSON text; it is modelled as the JSON    *)
(*    value that text denotes.                                             *)
(*  - An array reference is not kept; hook.seen tells whether the tasks    *)
(*    array is still the one the hook's useMemo calls saw last.  Every     *)
(*    operation that builds a new array clears it, and with it the values  *)
(*    memoized for the old array, which no render returns again.           *)
(***************************************************************************)
EXTENDS Integers, Sequences, FiniteSets, TLC

VARIABLES tasks, user, theme, filters, sortBy, isLoading,
          darkClass, storage, now, last,
          hook,     \* the memo cells of a mounted useTasks()
          deb,      \* one debounce() wrapper and its timer
          calc      \* the last call of a pure helper: its input and result

vars == <<tasks, user, theme, filters, sortBy, isLoading,
          darkClass, storage, now, last, hook, deb, calc>>

(* ---------------------------- bounds ---------------------------------- *)

\* last millisecond the clock reaches
MaxClock == 1

\* number of distinct suffixes Math.random() can produce
MaxRand == 2

\* longest task list addTask builds (initializeDemo always builds 3)
MaxTasks == 2

\* the debounce timeline: its last millisecond, the longest delay and the
\* number of calls of the wrapper
MaxTime == 4
MaxDelay == 2
MaxCalls == 3

\* due dates lie at most this many days before or after the current time
MaxDays == 5

\* the largest maxLength given to truncate
MaxLength == 10

(* ---------------------------- values ---------------------------------- *)

Undefined == "undefined"

NaN == "NaN"

JsonNull == "null"

NoUser == [kind |-> "null"]

TaskStatus == {"todo", "in-progress", "review", "done"}

ThemeMode == {"light", "dark"}

SortOption == {"newest", "oldest", "priority", "dueDate", "title"}

DayMs == 24 * 60 * 60 * 1000

TaskKeys == {"id", "status", "dueDate", "estimatedHours", "createdAt", "updatedAt"}

Times == 0..MaxClock

Suffixes == 1..MaxRand

\* Omit<Task, "id" | "createdAt" | "updatedAt"> given to addTask: a task
\* already due with no estimate, and one due in a day whose estimate is NaN
\* (estimatedHours?: number admits it)
TaskData ==
    { [status |-> "todo", dueDate |-> 0, estimatedHours |-> Undefined],
      [status |-> "todo", dueDate |-> DayMs, estimatedHours |-> NaN] }

(* ------------------------- object spreads ------------------------------ *)

\* { ...a, ...b }
Spread(a, b) == [k \in (DOMAIN a) \cup (DOMAIN b) |-> IF k \in DOMAIN b THEN b[k] ELSE a[k]]

(* --------------------------- generateId -------------------------------- *)

generateId(t, r) == <<t, r>>

(* --------------------------- the clock --------------------------------- *)

\* The n successive readings of Date.now() / new Date() one handler makes:
\* non-decreasing, the first equal to the current millisecond, the
\* millisecond turning over at most once while the handler runs.
ClockReads(n) ==
    { [i \in 1..n |-> IF i <= k THEN now ELSE now + 1] :
        k \in {n} \cup (IF now < MaxClock THEN 1..(n - 1) ELSE {}) }

\* the clock after a handler that made the readings c
ClockAfter(c) == IF Len(c) = 0 THEN now ELSE c[Len(c)]

(* ------------------- persist middleware (JSON slot) -------------------- *)

\* JSON.stringify of a number: NaN has no JSON form and is written as null
StringifyNumber(n) == IF n = NaN THEN JsonNull ELSE n

\* JSON.stringify of a Task: a property whose value is undefined is omitted
StringifyTask(t) ==
    LET keys == {k \in DOMAIN t : k # "estimatedHours" \/ t[k] # Undefined}
    IN  [k \in keys |-> IF k = "estimatedHours" THEN StringifyNumber(t[k]) ELSE t[k]]

\* JSON.stringify of User | null
StringifyUser(u) ==
    IF u = NoUser THEN NoUser
    ELSE [k \in {k \in DOMAIN u : u[k] # Undefined} |-> u[k]]

\* JSON.parse of a Task object: reading a property the text lacks gives undefined
ParseTask(j) == [k \in TaskKeys |-> IF k \in DOMAIN j THEN j[k] ELSE Undefined]

UserKeys == {"id", "name", "role", "avatar"}

ParseUser(j) ==
    IF j = NoUser THEN NoUser
    ELSE [k \in UserKeys |-> IF k \in DOMAIN j THEN j[k] ELSE Undefined]

\* the store's data: AppState without its functions
AppState(ts, u, th, f, sb, ld) ==
    [tasks |-> ts, user |-> u, theme |-> th, filters |-> f, sortBy |-> sb, isLoading |-> ld]

\* (variant) partialize left out: the whole state is written
partializeAll(state) == state

\* partialize: the part of the state that is written
partialize(state) == [tasks |-> state.tasks, user |-> state.user, theme |-> state.theme]

\* JSON.stringify({ state: partialize(state), version: 0 })
SetItem(state) ==
    LET p == partialize(state)
    IN  [kind |-> "json",
         state |-> [k \in DOMAIN p |->
                      CASE k = "tasks" -> [i \in 1..Len(p.tasks) |-> StringifyTask(p.tasks[i])]
                        [] k = "user"  -> StringifyUser(p.user)
                        [] OTHER       -> p[k]],
         version |-> 0]

\* localStorage.getItem gives null: nothing was ever written
NoItem == [kind |-> "missing"]

\* the persist middleware writes the slot after every set()
Persist == storage' = SetItem(AppState(tasks', user', theme', filters', sortBy', isLoading'))

(* --------------------------- inputs ------------------------------------ *)

IdSet == Times \X Suffixes

NoFilters == [k \in {} |-> TRUE]

\* Partial<Task> given to updateTask: the empty object and one property at
\* a time
Partials ==
    {NoFilters, [status |-> "done"], [createdAt |-> MaxClock], [id |-> <<0, 1>>]}

\* the columns a task is dragged to
MoveTargets == {"review", "done"}

\* the User objects given to setUser (avatar?: string is absent)
Users == { [id |-> "u1", name |-> "Ada", role |-> "admin", avatar |-> Undefined] }

\* Partial<TaskFilters> given to setFilters
FilterInputs == { [searchQuery |-> "q"] }

\* the options the sort menu is switched to
SortInputs == {"newest", "title"}

\* the inputs of the task operations when the whole store is explored
StorePartials == { [status |-> "done"] }

StoreMoveTargets == {"done"}

\* the fields of TaskFilters the filter bar sets
FilterKeys == {"status", "searchQuery"}

\* partial filters: no field, one field or both, with empty values too
PartialFilters ==
    {NoFilters,
     [searchQuery |-> "q"],
     [searchQuery |-> ""],
     [status |-> <<"todo">>],
     [status |-> <<>>, searchQuery |-> "r"]}

\* the columns a card is dragged to
ViewMoveTargets == {"in-progress", "done"}

(* --------------------------- task actions ------------------------------ *)

\* the operation that ran last, and whether it found something to act on:
\* the id it was given named a task; logout had a user and tasks to clear;
\* restart found an item in the slot
Did(op, hit) == [op |-> op, hit |-> hit]

UIUnchanged == UNCHANGED <<user, theme, filters, sortBy, isLoading, darkClass>>

\* the helpers outside the store are not involved
OutsideStore == UNCHANGED <<deb, calc>>

TasksArrayReused == UNCHANGED hook

\* state.tasks is a new array: the hook's dependency [tasks] has changed
NewTasksArray == hook' = [seen |-> FALSE, computed |-> FALSE]

\* state.tasks is the same array as before
SameTasksArray == UNCHANGED hook

addTaskAtEnd(taskData, r) ==
  \E c \in ClockReads(3) :
    /\ Len(tasks) < MaxTasks
    /\ LET newTask == Spread(taskData, [id |-> generateId(c[1], r),
                                        createdAt |-> c[2],
                                        updatedAt |-> c[3]])
       IN  tasks' = tasks \o <<newTask>>
    /\ now' = ClockAfter(c)
    /\ last' = Did("addTask", FALSE)
    /\ UIUnchanged
    /\ Persist
    /\ NewTasksArray /\ OutsideStore

\* addTask: generateId() reads the clock, then createdAt, then updatedAt
addTask(taskData, r) ==
  \E c \in ClockReads(3) :
    /\ Len(tasks) < MaxTasks
    /\ LET newTask == Spread(taskData, [id |-> generateId(c[1], r),
                                        createdAt |-> c[2],
                                        updatedAt |-> c[3]])
       IN  tasks' = <<newTask>> \o tasks
    /\ now' = ClockAfter(c)
    /\ last' = Did("addTask", FALSE)
    /\ UIUnchanged
    /\ Persist
    /\ NewTasksArray /\ OutsideStore

\* how many of ts[1..i] have the given id
MatchRank(ts, id, i) == Cardinality({j \in 1..i : ts[j].id = id})

Matches(ts, id) == MatchRank(ts, id, Len(ts))

\* (variant) every task is stamped, the matching one also updated
UpdateTasksStampAll(ts, id, updates, c) ==
    [i \in 1..Len(ts) |->
        IF ts[i].id = id
        THEN Spread(Spread(ts[i], updates), [updatedAt |-> c[MatchRank(ts, id, i)]])
        ELSE Spread(ts[i], [updatedAt |-> now])]

\* (variant) { ...task, updatedAt: now, ...updates }: the updates spread last
UpdateTasksUpdatesLast(ts, id, updates, c) ==
    [i \in 1..Len(ts) |->
        IF ts[i].id = id
        THEN Spread(Spread(ts[i], [updatedAt |-> c[MatchRank(ts, id, i)]]), updates)
        ELSE ts[i]]

\* state.tasks.map(...) of updateTask; c[n] is the clock reading made for
\* the n-th matching task
UpdateTasks(ts, id, updates, c) ==
    [i \in 1..Len(ts) |->
        IF ts[i].id = id
        THEN Spread(Spread(ts[i], updates), [updatedAt |-> c[MatchRank(ts, id, i)]])
        ELSE ts[i]]

updateTask(id, updates) ==
  \E c \in ClockReads(Matches(tasks, id)) :
    /\ tasks' = UpdateTasks(tasks, id, updates, c)
    /\ now' = ClockAfter(c)
    /\ last' = Did("updateTask", Matches(tasks, id) > 0)
    /\ UIUnchanged
    /\ Persist
    /\ NewTasksArray /\ OutsideStore

\* (variant) only the first task with the id is removed
RECURSIVE FilterOutFirst(_, _)
FilterOutFirst(ts, id) ==
    IF ts = <<>> THEN <<>>
    ELSE IF Head(ts).id = id THEN Tail(ts)
    ELSE <<Head(ts)>> \o FilterOutFirst(Tail(ts), id)

\* state.tasks.filter((task) => task.id !== id)
RECURSIVE FilterOut(_, _)
FilterOut(ts, id) ==
    IF ts = <<>> THEN <<>>
    ELSE IF Head(ts).id # id THEN <<Head(ts)>> \o FilterOut(Tail(ts), id)
    ELSE FilterOut(Tail(ts), id)

deleteTask(id) ==
    /\ tasks' = FilterOut(tasks, id)
    /\ last' = Did("deleteTask", Matches(tasks, id) > 0)
    /\ UNCHANGED now
    /\ UIUnchanged
    /\ Persist
    /\ NewTasksArray /\ OutsideStore

\* the store's moveTask: get().updateTask(id, { status: newStatus })
moveTask(id, newStatus) ==
  \E c \in ClockReads(Matches(tasks, id)) :
    /\ tasks' = UpdateTasks(tasks, id, [status |-> newStatus], c)
    /\ now' = ClockAfter(c)
    /\ last' = Did("moveTask", Matches(tasks, id) > 0)
    /\ UIUnchanged
    /\ Persist
    /\ NewTasksArray /\ OutsideStore

\* useTasks().moveTask: reads the clock for its own updatedAt (c[1]), then
\* calls the store's updateTask, which reads it again for each match
hookMoveTask(id, newStatus) ==
  \E c \in ClockReads(1 + Matches(tasks, id)) :
    /\ tasks' = UpdateTasks(tasks, id, [status |-> newStatus, updatedAt |-> c[1]], Tail(c))
    /\ now' = ClockAfter(c)
    /\ last' = Did("hookMoveTask", Matches(tasks, id) > 0)
    /\ UIUnchanged
    /\ Persist
    /\ NewTasksArray /\ OutsideStore

(* ------------------------ user / theme / filters ----------------------- *)

NoTaskStep(op) ==
    /\ last' = Did(op, FALSE)
    /\ UNCHANGED now
    /\ SameTasksArray
    /\ OutsideStore

setUser(u) ==
    /\ user' = u
    /\ UNCHANGED <<tasks, theme, filters, sortBy, isLoading, darkClass>>
    /\ NoTaskStep("setUser")
    /\ Persist

\* (variant) logout that forgets the tasks
logoutUserOnly ==
    /\ user' = NoUser
    /\ UNCHANGED <<tasks, theme, filters, sortBy, isLoading, darkClass>>
    /\ last' = Did("logout", user # NoUser /\ tasks # <<>>)
    /\ UNCHANGED now
    /\ Persist
    /\ SameTasksArray /\ OutsideStore

logout ==
    /\ user' = NoUser
    /\ tasks' = <<>>
    /\ UNCHANGED <<theme, filters, sortBy, isLoading, darkClass>>
    /\ last' = Did("logout", user # NoUser /\ tasks # <<>>)
    /\ UNCHANGED now
    /\ Persist
    /\ NewTasksArray /\ OutsideStore

ApplyClassAddOnly(mode) == darkClass \/ mode = "dark"

\* document.documentElement.classList.add / remove ("dark")
ApplyClass(mode) == (mode = "dark")

toggleTheme ==
    LET newTheme == IF theme = "light" THEN "dark" ELSE "light"
    IN  /\ darkClass' = ApplyClass(newTheme)
        /\ theme' = newTheme
        /\ UNCHANGED <<tasks, user, filters, sortBy, isLoading>>
        /\ NoTaskStep("toggleTheme")
        /\ Persist

setTheme(mode) ==
    /\ darkClass' = ApplyClass(mode)
    /\ theme' = mode
    /\ UNCHANGED <<tasks, user, filters, sortBy, isLoading>>
    /\ NoTaskStep("setTheme")
    /\ Persist

setFiltersReplacing(newFilters) ==
    /\ filters' = newFilters
    /\ UNCHANGED <<tasks, user, theme, sortBy, isLoading, darkClass>>
    /\ NoTaskStep("setFilters")
    /\ Persist

setFilters(newFilters) ==
    /\ filters' = Spread(filters, newFilters)
    /\ UNCHANGED <<tasks, user, theme, sortBy, isLoading, darkClass>>
    /\ NoTaskStep("setFilters")
    /\ Persist

clearFilters ==
    /\ filters' = NoFilters
    /\ UNCHANGED <<tasks, user, theme, sortBy, isLoading, darkClass>>
    /\ NoTaskStep("clearFilters")
    /\ Persist

setSortBy(option) ==
    /\ sortBy' = option
    /\ UNCHANGED <<tasks, user, theme, filters, isLoading, darkClass>>
    /\ NoTaskStep("setSortBy")
    /\ Persist

(* ----------------------------- demo data ------------------------------- *)

\* the n-th demo task literal: id, dueDate, createdAt and updatedAt each
\* read the clock, in that order
DemoTask(n, st, days, hours, c, r) ==
    [id             |-> generateId(c[4 * n - 3], r),
     status         |-> st,
     dueDate        |-> c[4 * n - 2] + days * DayMs,
     estimatedHours |-> hours,
     createdAt      |-> c[4 * n - 1],
     updatedAt      |-> c[4 * n]]

DemoTasks(c, r) ==
    << DemoTask(1, "in-progress", 2, "8", c, r[1]),
       DemoTask(2, "todo", 1, "3", c, r[2]),
       DemoTask(3, "review", 5, "10", c, r[3]) >>

initializeDemo(r) ==
  \E c \in ClockReads(12) :
    /\ tasks' = DemoTasks(c, r)
    /\ now' = ClockAfter(c)
    /\ last' = Did("initializeDemo", FALSE)
    /\ UIUnchanged
    /\ Persist
    /\ NewTasksArray /\ OutsideStore

(* ------------------------- clock and restart --------------------------- *)

\* useTasks() before its first render: nothing memoized yet
Mounted == [seen |-> FALSE, computed |-> FALSE]

\* no debounce() wrapper was made
Idle == [delay |-> 0]

\* no helper was called yet
NoCall == [fn |-> "none"]

(* ---------------------------- text helpers ---------------------------- *)

\* the example in the comment on truncate: the call and what it is said
\* to return
TruncateExample ==
    [text      |-> "This is a very long text",
     maxLength |-> 10,
     returns   |-> "This is a..."]

\* texts given to truncate: empty, shorter and longer than the limits,
\* with and without blanks, and the text of the example
Texts ==
    {"", "a", "ab", "abc", "short", "a b c d e f", "0123456789",
     "0123456789a", "...", TruncateExample.text}

\* the result of truncate(text, maxLength); substring(0, n) is the first
\* n characters
Truncate(text, maxLength) ==
    IF Len(text) <= maxLength
    THEN text
    ELSE SubSeq(text, 1, maxLength) \o "..."

\* a call truncate(text, maxLength)
truncate(text, maxLength) ==
    /\ calc' = [fn        |-> "truncate",
                text      |-> text,
                maxLength |-> maxLength,
                result    |-> Truncate(text, maxLength)]
    /\ UNCHANGED <<tasks, user, theme, filters, sortBy, isLoading,
                   darkClass, storage, now, last, hook, deb>>

Tick ==
    /\ now < MaxClock
    /\ now' = now + 1
    /\ UNCHANGED <<tasks, user, theme, filters, sortBy, isLoading,
                   darkClass, storage, last, hook, deb, calc>>

\* the state the store is created with
InitialState == AppState(<<>>, NoUser, "light", NoFilters, "newest", FALSE)

\* JSON.parse of the slot's state object
ParseState(j) ==
    [k \in DOMAIN j |->
        CASE k = "tasks" -> [i \in 1..Len(j.tasks) |-> ParseTask(j.tasks[i])]
          [] k = "user"  -> ParseUser(j.user)
          [] OTHER       -> j[k]]

\* the slot holds text that JSON.parse rejects
Malformed == [kind |-> "malformed"]

\* the slot was written under another version number of the store
OtherVersion ==
    [kind |-> "json",
     state |-> [tasks |-> <<>>, user |-> NoUser, theme |-> "dark"],
     version |-> 1]

\* what the slot can hold instead of what the store wrote last
LostItems == {NoItem, Malformed, OtherVersion}

HydrateAnyVersion(item, current) ==
    IF item.kind = "json"
    THEN Spread(current, ParseState(item.state))
    ELSE current

\* persist's default merge: { ...currentState, ...persistedState }, of an
\* item that parses and carries the version of the options
Hydrate(item, current) ==
    IF item.kind = "json" /\ item.version = 0
    THEN Spread(current, ParseState(item.state))
    ELSE current

\* the page is loaded again: the store is created anew and hydrated from
\* the slot; the new document has no class on its root element
Restart ==
    LET s == Hydrate(storage, InitialState)
    IN  /\ tasks' = s.tasks
        /\ user' = s.user
        /\ theme' = s.theme
        /\ filters' = s.filters
        /\ sortBy' = s.sortBy
        /\ isLoading' = s.isLoading
        /\ darkClass' = FALSE
        /\ last' = Did("restart", storage.kind = "json")
        /\ hook' = Mounted
        /\ UNCHANGED <<now, storage>>
        /\ OutsideStore

\* the page is loaded again after the slot was removed, damaged or written
\* by another version: the store is created anew and finds nothing to use
RestartLost(item) ==
    LET s == Hydrate(item, InitialState)
    IN  /\ storage' = item
        /\ tasks' = s.tasks
        /\ user' = s.user
        /\ theme' = s.theme
        /\ filters' = s.filters
        /\ sortBy' = s.sortBy
        /\ isLoading' = s.isLoading
        /\ darkClass' = FALSE
        /\ last' = Did("restartLost", FALSE)
        /\ hook' = Mounted
        /\ UNCHANGED now
        /\ OutsideStore

(* ------------------------------ useTasks ------------------------------- *)

\* tasks.filter((t) => t.status === status)
WithStatus(ts, status) == SelectSeq(ts, LAMBDA t : t.status = status)

\* the first useMemo: the four columns
TasksByStatus(ts) ==
    [todo       |-> WithStatus(ts, "todo"),
     inProgress |-> WithStatus(ts, "in-progress"),
     review     |-> WithStatus(ts, "review"),
     done       |-> WithStatus(ts, "done")]

\* the second useMemo; c[i] is the new Date() read for the i-th task
StatsOf(ts, c) ==
    [total      |-> Len(ts),
     completed  |-> Len(WithStatus(ts, "done")),
     inProgress |-> Len(WithStatus(ts, "in-progress")),
     overdue    |-> Cardinality({i \in 1..Len(ts) :
                       ts[i].dueDate < c[i] /\ ts[i].status # "done"})]

\* a render of a component that calls useTasks(): each useMemo returns
\* what it holds when [tasks] is the array it saw last, and computes anew
\* otherwise, reading the clock once for every task
render ==
    \E c \in ClockReads(IF hook.seen THEN 0 ELSE Len(tasks)) :
      /\ hook' = IF hook.seen
                 THEN [hook EXCEPT !.computed = FALSE]
                 ELSE [seen          |-> TRUE,
                       computed      |-> TRUE,
                       tasksByStatus |-> TasksByStatus(tasks),
                       stats         |-> StatsOf(tasks, c)]
      /\ now' = ClockAfter(c)
      /\ UNCHANGED <<tasks, user, theme, filters, sortBy, isLoading,
                     darkClass, storage, last, deb, calc>>

(* ------------------------------ debounce ------------------------------- *)

\* the arguments the wrapper is called with
Args == {"a", "b"}

\* debounce(func, delay): the wrapper with its closure variable timeoutId,
\* not assigned yet.  timers are the timeouts set and neither run nor
\* cleared; calls and fired record what happened, for the properties:
\* a call with the time, its arguments and whether a timer was pending, an
\* invocation of func with the time, its arguments and the number of calls
\* made before it.
debounce(delay) ==
    [delay     |-> delay,
     time      |-> 0,
     timeoutId |-> 0,
     handles   |-> 0,
     timers    |-> {},
     calls     |-> <<>>,
     fired     |-> <<>>]

\* setTimeout(() => func(...args), delay): a new handle, due after delay
SetTimeout(d, args) ==
    [id |-> d.handles + 1, due |-> d.time + d.delay, args |-> args]

debouncedNoClear(args) ==
    /\ deb.delay > 0
    /\ Len(deb.calls) < MaxCalls
    /\ deb' = [deb EXCEPT
                 !.timers    = deb.timers \cup {SetTimeout(deb, args)},
                 !.timeoutId = deb.handles + 1,
                 !.handles   = deb.handles + 1,
                 !.calls     = Append(deb.calls,
                                 [at |-> deb.time, args |-> args,
                                  pending |-> deb.timers # {}])]
    /\ UNCHANGED <<tasks, user, theme, filters, sortBy, isLoading,
                   darkClass, storage, now, last, hook, calc>>

\* a call of the wrapper: clearTimeout(timeoutId), which does nothing for
\* a handle that is not pending, then timeoutId = setTimeout(...)
debounced(args) ==
    /\ deb.delay > 0
    /\ Len(deb.calls) < MaxCalls
    /\ deb' = [deb EXCEPT
                 !.timers    = {t \in deb.timers : t.id # deb.timeoutId}
                                 \cup {SetTimeout(deb, args)},
                 !.timeoutId = deb.handles + 1,
                 !.handles   = deb.handles + 1,
                 !.calls     = Append(deb.calls,
                                 [at |-> deb.time, args |-> args,
                                  pending |-> deb.timers # {}])]
    /\ UNCHANGED <<tasks, user, theme, filters, sortBy, isLoading,
                   darkClass, storage, now, last, hook, calc>>

\* a timeout runs its callback, no earlier than it is due: func(...args)
timeout ==
    /\ deb.delay > 0
    /\ \E t \in deb.timers :
          /\ t.due <= deb.time
          /\ deb' = [deb EXCEPT
                       !.timers = deb.timers \ {t},
                       !.fired  = Append(deb.fired,
                                    [at |-> deb.time, args |-> t.args,
                                     calls |-> Len(deb.calls)])]
    /\ UNCHANGED <<tasks, user, theme, filters, sortBy, isLoading,
                   darkClass, storage, now, last, hook, calc>>

\* a millisecond passes, whether or not a timeout is due
DebounceTick ==
    /\ deb.delay > 0
    /\ deb.time < MaxTime
    /\ deb' = [deb EXCEPT !.time = deb.time + 1]
    /\ UNCHANGED <<tasks, user, theme, filters, sortBy, isLoading,
                   darkClass, storage, now, last, hook, calc>>

(* ---------------------------- date helpers ---------------------------- *)

\* due dates around the time t: every half day up to MaxDays before and
\* after, and the millisecond before and after each of them
DueDates(t) ==
    {t + n * (DayMs \div 2) + e : n \in (-2 * MaxDays)..(2 * MaxDays),
                                  e \in {-1, 0, 1}}

\* differenceInDays of date-fns: the number of full days from t to date,
\* rounded towards zero
getDaysUntil(date, t) ==
    IF date >= t THEN (date - t) \div DayMs ELSE -((t - date) \div DayMs)

\* Math.abs
Abs(n) == IF n < 0 THEN -n ELSE n

DueDateStatusUpTo2(daysUntil) ==
    IF daysUntil < 0
    THEN [status |-> "overdue",
          color  |-> "text-red-600 dark:text-red-400",
          text   |-> "Overdue by " \o ToString(Abs(daysUntil)) \o " days"]
    ELSE IF daysUntil = 0
    THEN [status |-> "due-soon",
          color  |-> "text-orange-600 dark:text-orange-400",
          text   |-> "Due today"]
    ELSE IF daysUntil < 3
    THEN [status |-> "due-soon",
          color  |-> "text-yellow-600 dark:text-yellow-400",
          text   |-> "Due in " \o ToString(daysUntil) \o " days"]
    ELSE [status |-> "upcoming",
          color  |-> "text-green-600 dark:text-green-400",
          text   |-> "Due in " \o ToString(daysUntil) \o " days"]

\* getDueDateStatus after const daysUntil = getDaysUntil(dueDate)
DueDateStatus(daysUntil) ==
    IF daysUntil < 0
    THEN [status |-> "overdue",
          color  |-> "text-red-600 dark:text-red-400",
          text   |-> "Overdue by " \o ToString(Abs(daysUntil)) \o " days"]
    ELSE IF daysUntil = 0
    THEN [status |-> "due-soon",
          color  |-> "text-orange-600 dark:text-orange-400",
          text   |-> "Due today"]
    ELSE IF daysUntil <= 3
    THEN [status |-> "due-soon",
          color  |-> "text-yellow-600 dark:text-yellow-400",
          text   |-> "Due in " \o ToString(daysUntil) \o " days"]
    ELSE [status |-> "upcoming",
          color  |-> "text-green-600 dark:text-green-400",
          text   |-> "Due in " \o ToString(daysUntil) \o " days"]

\* a call getDueDateStatus(dueDate) at the current time
getDueDateStatus(dueDate) ==
    /\ calc' = [fn      |-> "getDueDateStatus",
                dueDate |-> dueDate,
                at      |-> now,
                result  |-> DueDateStatus(getDaysUntil(dueDate, now))]
    /\ UNCHANGED <<tasks, user, theme, filters, sortBy, isLoading,
                   darkClass, storage, now, last, hook, deb>>

\* new Date(dueDate) < new Date(), the second read at the time t
IsOverdue(dueDate, t) == dueDate < t

\* a call isOverdue(dueDate) at the current time
isOverdue(dueDate) ==
    /\ calc' = [fn      |-> "isOverdue",
                dueDate |-> dueDate,
                at      |-> now,
                result  |-> IsOverdue(dueDate, now)]
    /\ UNCHANGED <<tasks, user, theme, filters, sortBy, isLoading,
                   darkClass, storage, now, last, hook, deb>>

(* --------------------------- specification ----------------------------- *)

\* the store as created on a first visit: nothing in the slot
Created ==
    /\ tasks = InitialState.tasks
    /\ user = InitialState.user
    /\ theme = InitialState.theme
    /\ filters = InitialState.filters
    /\ sortBy = InitialState.sortBy
    /\ isLoading = InitialState.isLoading
    /\ darkClass = FALSE
    /\ storage = NoItem
    /\ last = Did("create", FALSE)
    /\ hook = Mounted

\* the store created at the first millisecond of the clock
InitTasks == Created /\ now = 0 /\ deb = Idle /\ calc = NoCall

\* the store created within the last millisecond of the clock: everything
\* that follows reads the same time
Init == Created /\ now = MaxClock /\ deb = Idle /\ calc = NoCall

\* every operation of the store, and the page being loaded again
Next ==
    \/ \E d \in TaskData, r \in Suffixes : addTask(d, r)
    \/ \E id \in IdSet, u \in StorePartials : updateTask(id, u)
    \/ \E id \in IdSet : deleteTask(id)
    \/ \E id \in IdSet, s \in StoreMoveTargets : moveTask(id, s)
    \/ \E u \in Users \cup {NoUser} : setUser(u)
    \/ logout
    \/ toggleTheme
    \/ \E m \in ThemeMode : setTheme(m)
    \/ \E f \in FilterInputs : setFilters(f)
    \/ clearFilters
    \/ \E o \in SortInputs : setSortBy(o)
    \/ \E r \in [1..3 -> Suffixes] : initializeDemo(r)
    \/ Restart
    \/ \E item \in LostItems : RestartLost(item)

\* the operations on single tasks, of the store and of the hook, as the
\* clock runs
NextTasks ==
    \/ Tick
    \/ \E d \in TaskData, r \in Suffixes : addTask(d, r)
    \/ \E id \in IdSet, u \in Partials : updateTask(id, u)
    \/ \E id \in IdSet : deleteTask(id)
    \/ \E id \in IdSet, s \in MoveTargets : moveTask(id, s)
    \/ \E id \in IdSet, s \in MoveTargets : hookMoveTask(id, s)

SpecTasks == InitTasks /\ [][NextTasks]_vars

\* the filter bar and the other settings, over a list that gets tasks
NextFilters ==
    \/ \E f \in PartialFilters : setFilters(f)
    \/ clearFilters
    \/ \E o \in SortOption : setSortBy(o)
    \/ toggleTheme
    \/ \E u \in Users : setUser(u)
    \/ \E d \in TaskData, r \in Suffixes : addTask(d, r)

SpecFilters == Init /\ [][NextFilters]_vars

\* a board that renders useTasks() while tasks are added, moved and
\* deleted, settings change and the clock runs
NextView ==
    \/ Tick
    \/ render
    \/ \E d \in TaskData, r \in Suffixes : addTask(d, r)
    \/ \E id \in IdSet : deleteTask(id)
    \/ \E id \in IdSet, st \in ViewMoveTargets : moveTask(id, st)
    \/ toggleTheme
    \/ \E f \in FilterInputs : setFilters(f)
    \/ \E o \in SortInputs : setSortBy(o)

SpecView == InitTasks /\ [][NextView]_vars

\* the date helpers called on due dates around the current time
NextDates ==
    \/ Tick
    \/ \E dueDate \in DueDates(now) : getDueDateStatus(dueDate)
    \/ \E dueDate \in DueDates(now) : isOverdue(dueDate)

SpecDates == InitTasks /\ [][NextDates]_vars

\* truncate called on the texts, with every limit
NextText ==
    \E text \in Texts, maxLength \in 0..MaxLength : truncate(text, maxLength)

SpecText == InitTasks /\ [][NextText]_vars

\* a wrapper made by debounce(func, delay), for some delay
InitDebounce ==
    /\ Created
    /\ now = 0
    /\ calc = NoCall
    /\ \E delay \in 1..MaxDelay : deb = debounce(delay)

\* the wrapper is called, time passes, timeouts run
NextDebounce ==
    \/ \E args \in Args : debounced(args)
    \/ timeout
    \/ DebounceTick

SpecDebounce == InitDebounce /\ [][NextDebounce]_vars

Spec == Init /\ [][Next]_vars

(* ======================= properties of the store ======================= *)

(* C1: in every reachable state no two tasks of the list have the same id. *)
C1_UniqueIds ==
    \A i, j \in 1..Len(tasks) : i # j => tasks[i].id # tasks[j].id

(* C2: updateTask(id, updates) leaves the matching task's id and createdAt *)
(* unchanged and does not move its updatedAt backwards.                    *)
C2_UpdateKeepsIdentity ==
    [][ last'.op = "updateTask" =>
        \A id \in IdSet, u \in Partials :
          updateTask(id, u) =>
            \A i \in 1..Len(tasks) :
              tasks[i].id = id =>
                /\ tasks'[i].id = tasks[i].id
                /\ tasks'[i].createdAt = tasks[i].createdAt
                /\ tasks'[i].updatedAt >= tasks[i].updatedAt ]_vars

\* what holds of updateTask instead: updatedAt never moves backwards, and
\* id and createdAt stay unless the updates name them
UpdateStampsForward ==
    [][ last'.op = "updateTask" =>
        \A id \in IdSet, u \in Partials :
          updateTask(id, u) =>
            \A i \in 1..Len(tasks) :
              tasks[i].id = id =>
                /\ "id" \notin DOMAIN u => tasks'[i].id = tasks[i].id
                /\ "createdAt" \notin DOMAIN u => tasks'[i].createdAt = tasks[i].createdAt
                /\ tasks'[i].updatedAt >= tasks[i].updatedAt
                /\ tasks'[i].updatedAt \in now..now' ]_vars

(* C3: in every reachable state every task has updatedAt >= createdAt.     *)
C3_UpdatedNotBeforeCreated ==
    \A i \in 1..Len(tasks) : tasks[i].updatedAt >= tasks[i].createdAt

(* C4: addTask puts in the list a task whose id no task already there has *)
(* and whose createdAt equals its updatedAt.                               *)
C4_AddFreshAndStamped ==
    [][ last'.op = "addTask" =>
        \A d \in TaskData, r \in Suffixes :
          addTask(d, r) =>
            /\ Len(tasks') = Len(tasks) + 1
            /\ \A i \in 1..Len(tasks) : tasks[i].id # tasks'[1].id
            /\ tasks'[1].createdAt = tasks'[1].updatedAt ]_vars

(* C5: after deleteTask(id) no task of the list has that id, and the tasks *)
(* with another id are all still there in their previous order; when no    *)
(* task has the id the list is as before.                                  *)
C5_DeleteRemovesExactly ==
    [][ last'.op = "deleteTask" =>
        \A id \in IdSet :
          deleteTask(id) =>
            /\ \A i \in 1..Len(tasks') : tasks'[i].id # id
            /\ tasks' = SelectSeq(tasks, LAMBDA t : t.id # id)
            /\ (Matches(tasks, id) = 0 => tasks' = tasks) ]_vars

\* a deleteTask removed a task and left another in the list
C5_Witness == last.op = "deleteTask" /\ last.hit /\ Len(tasks) >= 1

\* with an id no task has, updateTask and moveTask can run (nothing throws)
AbsentIdAccepted ==
    \A id \in IdSet :
      Matches(tasks, id) = 0 =>
        /\ \A u \in Partials : ENABLED updateTask(id, u)
        /\ \A s \in MoveTargets : ENABLED moveTask(id, s)

(* C6: when no task has the given id, updateTask and moveTask run without  *)
(* error and leave the task list as it was: same length, same order, every *)
(* field of every task, updatedAt included, unchanged.                     *)
C6_AbsentIdIsNoOp ==
    /\ []AbsentIdAccepted
    /\ [][ (last'.op \in {"updateTask", "moveTask"} /\ ~last'.hit) =>
            \A id \in IdSet :
              Matches(tasks, id) = 0 =>
                /\ \A u \in Partials : updateTask(id, u) => tasks' = tasks
                /\ \A s \in MoveTargets : moveTask(id, s) => tasks' = tasks ]_vars

\* an updateTask or moveTask with an id no task has ran on a list that has tasks
C6_Witness ==
    last.op \in {"updateTask", "moveTask"} /\ ~last.hit /\ Len(tasks) >= 1

\* the clock readings of an updateTask that ends when the clock shows now'
UpdateRuns(n) ==
    { c \in [1..n -> now..now'] :
        /\ \A i \in 1..(n - 1) : c[i] <= c[i + 1]
        /\ n > 0 => c[n] = now' }

(* C7: a moveTask(id, s) step, of the store or of the useTasks hook, gives *)
(* the task list, and the slot, that updateTask(id, {status: s}) gives     *)
(* from the same state with the same clock, and changes nothing else.      *)
C7_MoveIsUpdateStatus ==
    [][ last'.op \in {"moveTask", "hookMoveTask"} =>
        \A id \in IdSet, s \in MoveTargets :
          (moveTask(id, s) \/ hookMoveTask(id, s)) =>
            /\ \E c \in UpdateRuns(Matches(tasks, id)) :
                  tasks' = UpdateTasks(tasks, id, [status |-> s], c)
            /\ storage' = SetItem(AppState(tasks', user, theme, filters, sortBy, isLoading))
            /\ UIUnchanged ]_vars

\* the hook's moveTask moved a task, the clock turning over while it ran
C7_Witness ==
    /\ last.op = "hookMoveTask"
    /\ last.hit
    /\ \E i \in 1..Len(tasks) : tasks[i].updatedAt = now /\ tasks[i].createdAt < now

(* C8: after logout the task list is empty and the user is null.           *)
C8_LogoutClears ==
    last.op = "logout" => (tasks = <<>> /\ user = NoUser)

\* logout ran in a state that had a user and tasks
C8_Witness == last.op = "logout" /\ last.hit

\* what the JSON text of a task holds under key k
HeldAs(t, k) ==
    IF k = "estimatedHours" /\ t[k] = NaN THEN JsonNull ELSE t[k]

\* the keys the JSON text of a task has
HeldKeys(t) ==
    {k \in TaskKeys : ~(k = "estimatedHours" /\ t[k] = Undefined)}

(* C9: after every mutation of the store the slot holds the JSON form of   *)
(* the current tasks, user and theme, under exactly these three keys:      *)
(* never filters, sortBy or isLoading.                                     *)
C9_SlotFollowsState ==
    last.op \notin {"create", "restart", "restartLost"} =>
        /\ storage.kind = "json"
        /\ DOMAIN storage.state = {"tasks", "user", "theme"}
        /\ storage.state.theme = theme
        /\ IF user = NoUser
           THEN storage.state.user = NoUser
           ELSE \A k \in DOMAIN user :
                  IF user[k] = Undefined
                  THEN k \notin DOMAIN storage.state.user
                  ELSE k \in DOMAIN storage.state.user /\ storage.state.user[k] = user[k]
        /\ Len(storage.state.tasks) = Len(tasks)
        /\ \A i \in 1..Len(tasks) :
              /\ DOMAIN storage.state.tasks[i] = HeldKeys(tasks[i])
              /\ \A k \in HeldKeys(tasks[i]) :
                    storage.state.tasks[i][k] = HeldAs(tasks[i], k)

\* a filter was set in a state that has tasks, a user and the dark theme
C9_Witness ==
    /\ last.op = "setFilters"
    /\ filters # NoFilters
    /\ sortBy # "newest"
    /\ tasks # <<>>
    /\ user # NoUser
    /\ theme = "dark"

(* C10: loading the page again from the slot reproduces tasks, user and    *)
(* theme exactly and resets filters to {} and sortBy to "newest".          *)
C10_RestartRoundTrip ==
    [][ last'.op = "restart" =>
          /\ tasks' = tasks
          /\ user' = user
          /\ theme' = theme
          /\ filters' = NoFilters
          /\ sortBy' = "newest" ]_vars

\* what holds of the restart instead: everything is as C10 says except that
\* an estimatedHours of NaN comes back as null
RestartUpToNaN ==
    [][ last'.op = "restart" =>
          /\ Len(tasks') = Len(tasks)
          /\ \A i \in 1..Len(tasks) : \A k \in TaskKeys :
                tasks'[i][k] = HeldAs(tasks[i], k)
          /\ user' = user
          /\ theme' = theme
          /\ filters' = NoFilters
          /\ sortBy' = "newest" ]_vars

(* C11: when the page is loaded and the slot is missing or holds data that *)
(* cannot be used (text that does not parse, or another version), the      *)
(* store starts in its default state: no tasks, no user, theme "light",    *)
(* no filters, sortBy "newest"; the start is always possible.              *)
C11_StartsFromDefaults ==
    /\ \A item \in LostItems : ENABLED RestartLost(item)
    /\ (last.op = "restartLost" \/ (last.op = "restart" /\ ~last.hit)) =>
          /\ tasks = <<>>
          /\ user = NoUser
          /\ theme = "light"
          /\ filters = NoFilters
          /\ sortBy = "newest"
          /\ isLoading = FALSE

\* the page came up with a slot that does not parse
C11_Witness ==
    /\ last.op = "restartLost"
    /\ storage = Malformed

(* C12: toggleTheme() turns "light" into "dark" and "dark" into "light",   *)
(* setTheme(mode) sets the theme to mode, and after either of them the     *)
(* "dark" class is on the document root exactly when the theme is "dark".  *)
C12_ThemeAndClassAgree ==
    [][ /\ last'.op = "toggleTheme" =>
              /\ theme = "light" => theme' = "dark"
              /\ theme = "dark" => theme' = "light"
              /\ darkClass' <=> theme' = "dark"
        /\ last'.op = "setTheme" =>
              \A m \in ThemeMode :
                setTheme(m) => theme' = m /\ (darkClass' <=> m = "dark") ]_vars

\* the theme was toggled back to "light" and the class taken off
C12_Witness ==
    /\ last.op = "toggleTheme"
    /\ theme = "light"
    /\ ~darkClass
    /\ storage.kind = "json"

(* C14: addTask prepends: the list is one longer, the new task, with the   *)
(* fields it was given, is first, and the tasks after it are the previous  *)
(* list, unchanged and in the same order.                                  *)
C14_AddPrepends ==
    [][ last'.op = "addTask" =>
        \A d \in TaskData, r \in Suffixes :
          addTask(d, r) =>
            /\ Len(tasks') = Len(tasks) + 1
            /\ \A k \in DOMAIN d : tasks'[1][k] = d[k]
            /\ tasks'[1].id[2] = r
            /\ \A i \in 1..Len(tasks) : tasks'[i + 1] = tasks[i]
            /\ Tail(tasks') = tasks ]_vars

\* a task was added in front of another one that was created earlier
C14_Witness ==
    /\ last.op = "addTask"
    /\ Len(tasks) = 2
    /\ tasks[1].createdAt > tasks[2].createdAt

(* C15: setFilters(partial) merges: a field partial does not have keeps    *)
(* its value (or stays absent), a field partial has takes partial's value, *)
(* an empty one too, and tasks, user, theme and sortBy stay as they are;   *)
(* clearFilters() leaves no filter field, whatever was merged before.      *)
C15_FiltersMerge ==
    [][ /\ last'.op = "setFilters" =>
              \A f \in PartialFilters :
                setFilters(f) =>
                  /\ DOMAIN filters' = DOMAIN filters \cup DOMAIN f
                  /\ \A k \in DOMAIN f : filters'[k] = f[k]
                  /\ \A k \in DOMAIN filters \ DOMAIN f :
                        filters'[k] = filters[k]
                  /\ UNCHANGED <<tasks, user, theme, sortBy>>
        /\ last'.op = "clearFilters" =>
              /\ filters' = NoFilters
              /\ UNCHANGED <<tasks, user, theme, sortBy>> ]_vars

\* a merge kept the status set earlier and emptied the search text, with
\* tasks, a user, the dark theme and a sort order in place
C15_Witness ==
    /\ last.op = "setFilters"
    /\ DOMAIN filters = FilterKeys
    /\ filters.status = <<"todo">>
    /\ filters.searchQuery = ""
    /\ tasks # <<>>
    /\ user # NoUser
    /\ theme = "dark"
    /\ sortBy = "priority"

(* ======================= properties of the hook ======================== *)

\* what a render returned last is the partition of the list by status
ColumnsCurrent ==
    hook.seen =>
        LET b == hook.tasksByStatus
        IN  /\ b.todo = WithStatus(tasks, "todo")
            /\ b.inProgress = WithStatus(tasks, "in-progress")
            /\ b.review = WithStatus(tasks, "review")
            /\ b.done = WithStatus(tasks, "done")
            /\ Len(b.todo) + Len(b.inProgress) + Len(b.review) + Len(b.done)
                 = Len(tasks)
            /\ \A i \in 1..Len(tasks) :
                  Cardinality({k \in DOMAIN b :
                      \E j \in 1..Len(b[k]) : b[k][j] = tasks[i]}) = 1

(* C16: the tasksByStatus a render returns is the partition of the current *)
(* list by status: each column holds the tasks of its status in list       *)
(* order, every task is in exactly one column, the column sizes add up to  *)
(* the length of the list; a render computes it anew exactly when the      *)
(* tasks array was replaced since the render before, which a change of     *)
(* theme, filters or sortBy does not do and addTask, deleteTask and        *)
(* moveTask do.                                                            *)
C16_ColumnsFollowTasks ==
    /\ []ColumnsCurrent
    /\ [][ /\ render => (hook'.computed <=> ~hook.seen) /\ hook'.seen
           /\ (theme' # theme \/ filters' # filters \/ sortBy' # sortBy) =>
                 hook' = hook
           /\ tasks' # tasks => ~hook'.seen ]_vars

\* a render returned the columns it held, after the theme changed
C16_Witness ==
    /\ hook.seen
    /\ ~hook.computed
    /\ last.op = "toggleTheme"
    /\ Len(hook.tasksByStatus.inProgress) = 1
    /\ Len(hook.tasksByStatus.todo) = 1

\* the number of tasks not done whose due date is before the time t
OverdueAt(t) ==
    Cardinality({i \in 1..Len(tasks) :
        tasks[i].dueDate < t /\ tasks[i].status # "done"})

\* the stats st are those of the current list, at some time from t1 to t2
StatsCurrent(st, t1, t2) ==
    /\ st.total = Len(tasks)
    /\ st.completed = Len(WithStatus(tasks, "done"))
    /\ st.inProgress = Len(WithStatus(tasks, "in-progress"))
    /\ OverdueAt(t1) <= st.overdue
    /\ st.overdue <= OverdueAt(t2)

(* C17: the stats a render returns are those of the current list at the    *)
(* time of the render: total is its length, completed and inProgress count *)
(* its done and in-progress tasks, overdue counts its tasks that are not   *)
(* done and whose due date is before the current time.                     *)
C17_StatsAtRender ==
    [][ render => StatsCurrent(hook'.stats, now, now') ]_vars

\* what holds of the stats instead: they are right when they are computed,
\* and the three counts that do not read the clock stay right
StatsAsComputed ==
    /\ [][ (render /\ ~hook.seen) =>
              StatsCurrent(hook'.stats, now, now') ]_vars
    /\ [](hook.seen =>
              /\ hook.stats.total = Len(tasks)
              /\ hook.stats.completed = Len(WithStatus(tasks, "done"))
              /\ hook.stats.inProgress = Len(WithStatus(tasks, "in-progress")))

(* ====================== properties of the helpers ====================== *)

\* func runs only when delay has elapsed since the most recent call of the
\* wrapper, and with that call's arguments
FiredAfterQuiet ==
    \A j \in 1..Len(deb.fired) :
      LET f == deb.fired[j]
      IN  /\ f.calls >= 1
          /\ f.args = deb.calls[f.calls].args
          /\ f.at >= deb.calls[f.calls].at + deb.delay

\* at most one timeout is pending
OneTimer == Cardinality(deb.timers) <= 1

\* the number of bursts: a call opens a burst when it is the first or
\* comes delay or more after the call before it
Bursts ==
    Cardinality({i \in 1..Len(deb.calls) :
        i = 1 \/ deb.calls[i].at - deb.calls[i - 1].at >= deb.delay})

\* the number of runs: a call opens a run when no timeout is pending
Runs == Cardinality({i \in 1..Len(deb.calls) : ~deb.calls[i].pending})

(* C13: func runs only once delay has elapsed since the most recent call,  *)
(* with that call's arguments; at most one timeout is pending; and once no *)
(* timeout is pending func has run exactly once for every burst of calls   *)
(* closer together than delay.                                             *)
C13_OncePerBurst ==
    /\ FiredAfterQuiet
    /\ OneTimer
    /\ deb.timers = {} => Len(deb.fired) = Bursts

(* C13 as it holds: the same, with a burst ended by the timeout running    *)
(* and not by delay having elapsed: func has run once for every call made  *)
(* while no timeout was pending, less the timeout still pending, and never *)
(* twice for the same call.                                                *)
C13_OncePerRun ==
    /\ FiredAfterQuiet
    /\ OneTimer
    /\ Len(deb.fired) = Runs - Cardinality(deb.timers)
    /\ \A i, j \in 1..Len(deb.fired) :
          i # j => deb.fired[i].calls # deb.fired[j].calls

\* two calls in a row, the timeout has run for the second, and a third call
\* has set a timeout again
C13_Witness ==
    /\ Len(deb.calls) = 3
    /\ deb.calls[2].pending
    /\ ~deb.calls[3].pending
    /\ Len(deb.fired) = 1
    /\ deb.fired[1].args = deb.calls[2].args
    /\ deb.calls[1].args # deb.calls[2].args
    /\ deb.timers # {}

\* the whole days from the time of the last helper call to its due date
CalcDays == getDaysUntil(calc.dueDate, calc.at)

\* the colour hints getDueDateStatus gives over the range of days
ColorHints ==
    {DueDateStatus(d).color : d \in (-MaxDays)..MaxDays}

(* C18: with d the whole days from now to the due date, getDueDateStatus   *)
(* returns status overdue and text "Overdue by |d| days" for d < 0, status *)
(* due-soon and text "Due today" for d = 0, status due-soon for d from 1   *)
(* to 3 and status upcoming for d of 4 or more; the colour hints of the    *)
(* four cases are four different ones.                                     *)
C18_DueDateClasses ==
    calc.fn = "getDueDateStatus" =>
      LET d == CalcDays
          r == calc.result
      IN  /\ d < 0 => /\ r.status = "overdue"
                      /\ r.text = "Overdue by " \o ToString(-d) \o " days"
          /\ d = 0 => r.status = "due-soon" /\ r.text = "Due today"
          /\ (1 <= d /\ d <= 3) => r.status = "due-soon"
          /\ d >= 4 => r.status = "upcoming"
          /\ r.status \in {"overdue", "due-soon", "upcoming"}
          /\ Cardinality(ColorHints) = 4
          /\ \A e \in (-MaxDays)..MaxDays :
                (DueDateStatus(e).color = r.color) <=>
                  \/ e < 0 /\ d < 0
                  \/ e = 0 /\ d = 0
                  \/ 1 <= e /\ e <= 3 /\ 1 <= d /\ d <= 3
                  \/ e >= 4 /\ d >= 4

\* a due date a millisecond short of four days ahead was classified
C18_Witness ==
    /\ calc.fn = "getDueDateStatus"
    /\ calc.dueDate - calc.at = 4 * DayMs - 1
    /\ calc.result.status = "due-soon"

\* truncate returns the text when it is not longer than maxLength, and
\* otherwise its first maxLength characters followed by three dots
TruncateCuts ==
    calc.fn = "truncate" =>
      LET n == calc.maxLength
      IN  IF Len(calc.text) <= n
          THEN calc.result = calc.text
          ELSE /\ Len(calc.result) = n + 3
               /\ SubSeq(calc.result, 1, n) = SubSeq(calc.text, 1, n)
               /\ SubSeq(calc.result, n + 1, n + 3) = "..."

(* C19: truncate(text, N) returns text when its length is at most N and    *)
(* otherwise the first N characters of text followed by "..."; and         *)
(* truncate("This is a very long text", 10) returns what the comment on    *)
(* truncate says it returns.                                               *)
C19_TruncateAsDocumented ==
    /\ TruncateCuts
    /\ ( /\ calc.fn = "truncate"
         /\ calc.text = TruncateExample.text
         /\ calc.maxLength = TruncateExample.maxLength )
       => calc.result = TruncateExample.returns

(* C20: in every reachable state of the store, the state after a page load *)
(* that restores the theme "dark" included, the "dark" class is on the     *)
(* document root exactly when the theme is "dark".                         *)
C20_ClassFollowsTheme == darkClass <=> theme = "dark"

\* what holds instead: the two agree except from a page load that restored
\* the theme "dark" until the next toggleTheme or setTheme
ClassFollowsThemeOps ==
    /\ [][ last'.op \notin {"restart", "restartLost"} =>
              ((darkClass <=> theme = "dark") =>
                 (darkClass' <=> theme' = "dark")) ]_vars
    /\ [](~(darkClass <=> theme = "dark") => theme = "dark" /\ ~darkClass)

\* the helper called last, whichever it was, found its date overdue by
\* the comparison with the current time: isOverdue says so, and so does
\* the count of the hook's stats for a task not done with that due date
CalcPastDue ==
    /\ calc.fn \in {"isOverdue", "getDueDateStatus"}
    /\ IsOverdue(calc.dueDate, calc.at)
    /\ calc.fn = "isOverdue" => calc.result
    /\ StatsOf(<<[dueDate |-> calc.dueDate, status |-> "todo"]>>,
               <<calc.at>>).overdue = 1

\* getDueDateStatus, called or as it would answer at the same time for
\* the same date
CalcStatus ==
    IF calc.fn = "getDueDateStatus"
    THEN calc.result.status
    ELSE DueDateStatus(getDaysUntil(calc.dueDate, calc.at)).status

(* C21: for every due date and current time, a date that isOverdue and the *)
(* overdue count of the stats treat as overdue (strictly before now) gets  *)
(* the status overdue from getDueDateStatus.                               *)
C21_OverdueNotionsAgree ==
    CalcPastDue => CalcStatus = "overdue"

\* what holds instead: a date getDueDateStatus calls overdue is before
\* now, and a date a full day or more before now is called overdue
OverdueByFullDays ==
    calc.fn \in {"isOverdue", "getDueDateStatus"} =>
      /\ CalcStatus = "overdue" => CalcPastDue
      /\ calc.at - calc.dueDate >= DayMs => CalcStatus = "overdue"
      /\ (CalcPastDue /\ calc.at - calc.dueDate < DayMs) =>
            CalcStatus = "due-soon"

====
